---- MODULE Spec2Model ----
(***************************************************************************)
(* A model of src/main.rs: the cell-to-ANSI encoder, the used-height scan,  *)
(* VirtualTerminal::render and the driver loop of main, together with the   *)
(* collaborators render talks to (the pty byte stream, the BufReader, the   *)
(* terminal-state machine and the host terminal).                           *)
(*                                                                          *)
(* Three specifications share the variables:                                *)
(*   EncSpec   cell_to_ansi applied to a cell drawn from a bounded set;      *)
(*   GridSpec  get_used_height and the frame loop applied to a drawn grid;  *)
(*   Spec      the driver loop (FairSpec: the same, the loop keeps running).*)
(***************************************************************************)
EXTENDS Integers, Sequences, FiniteSets, TLC

VARIABLES
    mode,       \* which specification runs: "enc", "grid" or "driver"
    cell,       \* EncSpec: the cell handed to cell_to_ansi
    ansi,       \* EncSpec: the returned escape sequence ("" before the call)
    usedHeight, \* GridSpec: what get_used_height returned (-1 before the call)
    parser,     \* the terminal-state machine: size, cell grid, cursor
    renderRows, \* render_rows of the last frame built (-1: none built)
    frame,      \* the last frame text built, as the pieces pushed onto it
    pc,         \* main: "running", "failed" (main returned Err), "panicked", "done"
    tick,       \* parity of the number of loop iterations completed
    child,      \* the child process: "alive" or "exited"
    writes,     \* number of writes the child has made
    produced,   \* every byte the child wrote, in order
    pty,        \* bytes in the kernel's pty buffer, not yet read
    rbuf,       \* bytes held in the BufReader
    fed,        \* every byte handed to parser.process, in order
    host,       \* the host terminal: size, cursor, saved cursor, screen lines
    hostBefore, \* the host terminal when the last render call began
    ops,        \* the operations the last render call performed, in order
    outcome,    \* how the last render call ended
    lastRead    \* the byte count the last read returned (-1: none, or an error)

vars == <<mode, cell, ansi, usedHeight, parser, renderRows, frame, pc, tick,
          child, writes, produced, pty, rbuf, fed, host, hostBefore, ops,
          outcome, lastRead>>

encVars == <<cell, ansi>>
driverVars == <<pc, tick, child, writes, produced, pty, rbuf, fed, host,
                hostBefore, ops, outcome, lastRead>>

(***************************************************************************)
(* Bounds of the model.                                                     *)
(***************************************************************************)
MaxRows == 2      \* rows of the virtual screen (main passes 24)
MaxCols == 2      \* columns of the virtual screen (main passes 80)
MaxHostRows == 4  \* largest host terminal height
MaxHostCols == 2  \* largest host terminal width
MaxWrites == 2    \* writes the child makes before it stops writing
ChunkSize == 2    \* size of render's read buffer (the source reads into
                  \* [0; 256]); kept small so that a read is cut short

(***************************************************************************)
(* Program constants.                                                       *)
(***************************************************************************)
BufCapacity == 8192   \* BufReader::new: the default capacity

Min(a, b) == IF a < b THEN a ELSE b

\* F applied to the value of v, v evaluated once (let x = v; F(x))
Bind(v, F(_)) == CHOOSE r \in {F(x) : x \in {v}} : TRUE
SatSub(a, b) == IF a > b THEN a - b ELSE 0   \* u16::saturating_sub

ESC == "ESC"

(***************************************************************************)
(* vt100::Color and vt100::Cell, as the accessors of the source read them.  *)
(***************************************************************************)
ColorDefault == [kind |-> "Default"]
ColorIdx(i) == [kind |-> "Idx", idx |-> i]
ColorRgb(r, g, b) == [kind |-> "Rgb", r |-> r, g |-> g, b |-> b]

Colors ==
    {ColorDefault, ColorIdx(0), ColorIdx(3), ColorIdx(255),
     ColorRgb(10, 20, 30), ColorRgb(0, 0, 0), ColorRgb(255, 255, 255)}

MkCell(s, fl, fg, bg) ==
    [contents |-> s, bold |-> fl[1], dim |-> fl[2], italic |-> fl[3],
     underline |-> fl[4], inverse |-> fl[5], fg |-> fg, bg |-> bg]

NoFlags == <<FALSE, FALSE, FALSE, FALSE, FALSE>>
PlainCell(s) == MkCell(s, NoFlags, ColorDefault, ColorDefault)

(***************************************************************************)
(* color_to_ansi_code                                                       *)
(***************************************************************************)
color_to_ansi_code_swapped(color, is_foreground) ==
    CASE color.kind = "Default" -> IF is_foreground THEN "39" ELSE "49"
      [] color.kind = "Idx" ->
            IF is_foreground THEN "38;5;" \o ToString(color.idx)
                             ELSE "48;5;" \o ToString(color.idx)
      [] color.kind = "Rgb" ->
            IF is_foreground
            THEN "38;2;" \o ToString(color.b) \o ";" \o ToString(color.g)
                         \o ";" \o ToString(color.r)
            ELSE "48;2;" \o ToString(color.b) \o ";" \o ToString(color.g)
                         \o ";" \o ToString(color.r)

color_to_ansi_code(color, is_foreground) ==
    CASE color.kind = "Default" -> IF is_foreground THEN "39" ELSE "49"
      [] color.kind = "Idx" ->
            IF is_foreground THEN "38;5;" \o ToString(color.idx)
                             ELSE "48;5;" \o ToString(color.idx)
      [] color.kind = "Rgb" ->
            IF is_foreground
            THEN "38;2;" \o ToString(color.r) \o ";" \o ToString(color.g)
                         \o ";" \o ToString(color.b)
            ELSE "48;2;" \o ToString(color.r) \o ";" \o ToString(color.g)
                         \o ";" \o ToString(color.b)

(***************************************************************************)
(* codes.join(";")                                                          *)
(***************************************************************************)
RECURSIVE Join(_, _)
Join(codes, sep) ==
    IF codes = <<>> THEN ""
    ELSE IF Len(codes) = 1 THEN codes[1]
    ELSE codes[1] \o sep \o Join(Tail(codes), sep)

(***************************************************************************)
(* cell_to_ansi: the pushes onto codes, in the order of the source.         *)
(***************************************************************************)
Push(codes, cond, code) == IF cond THEN Append(codes, code) ELSE codes

cell_to_ansi_bg_first(c) ==
    LET c1 == Push(<<>>, c.bold, "1")
        c2 == Push(c1, c.dim, "2")
        c3 == Push(c2, c.italic, "3")
        c4 == Push(c3, c.underline, "4")
        c5 == Push(c4, c.inverse, "7")
        c6 == Append(c5, color_to_ansi_code(c.bg, FALSE))
        c7 == Append(c6, color_to_ansi_code(c.fg, TRUE))
    IN  IF c7 = <<>> THEN ESC \o "[0m"
        ELSE ESC \o "[" \o Join(c7, ";") \o "m"

cell_to_ansi(c) ==
    LET c1 == Push(<<>>, c.bold, "1")
        c2 == Push(c1, c.dim, "2")
        c3 == Push(c2, c.italic, "3")
        c4 == Push(c3, c.underline, "4")
        c5 == Push(c4, c.inverse, "7")
        c6 == Append(c5, color_to_ansi_code(c.fg, TRUE))
        c7 == Append(c6, color_to_ansi_code(c.bg, FALSE))
    IN  IF c7 = <<>> THEN ESC \o "[0m"
        ELSE ESC \o "[" \o Join(c7, ";") \o "m"

(***************************************************************************)
(* The terminal-state machine (vt100::Parser), as render uses it:           *)
(* screen().size(), screen().cell(row, col), process(bytes).                *)
(***************************************************************************)
BlankCell == PlainCell("")

NewParser(rows, cols) ==
    [rows |-> rows, cols |-> cols,
     cells |-> [r \in 0..(rows - 1) |-> [c \in 0..(cols - 1) |-> BlankCell]],
     cur |-> <<0, 0>>]

\* screen.cell(row, col): an Option, here a sequence of length 0 or 1
ScreenCell(p, row, col) ==
    IF row < p.rows /\ col < p.cols THEN <<p.cells[row][col]>> ELSE <<>>

(***************************************************************************)
(* is_row_non_empty and get_used_height                                     *)
(***************************************************************************)
is_row_non_empty(p, row) ==
    \E col \in 0..(p.cols - 1) :
        /\ ScreenCell(p, row, col) # <<>>
        /\ ScreenCell(p, row, col)[1].contents # ""
        /\ ScreenCell(p, row, col)[1].contents # " "

\* for row in (0..rows).rev(): n rows are still to be scanned, row n-1 is next
RECURSIVE ScanRowsRev(_, _)
ScanRowsRev(p, n) ==
    IF n = 0 THEN 1
    ELSE IF is_row_non_empty(p, n - 1) THEN Min((n - 1) + 1, p.rows)
    ELSE ScanRowsRev(p, n - 1)

\* the same scan started from the top row
RECURSIVE ScanRowsFwd(_, _)
ScanRowsFwd(p, row) ==
    IF row >= p.rows THEN 1
    ELSE IF is_row_non_empty(p, row) THEN Min(row + 1, p.rows)
    ELSE ScanRowsFwd(p, row + 1)

get_used_height_top_down(p) == ScanRowsFwd(p, 0)

get_used_height(p) == ScanRowsRev(p, p.rows)

(***************************************************************************)
(* The frame text of render (lines 164-180): a String, kept as the          *)
(* sequence of pieces pushed onto it.                                       *)
(***************************************************************************)
Piece(t, s, n) == [t |-> t, s |-> s, n |-> n]
Sgr(s) == Piece("sgr", s, 0)
Text(s) == Piece("text", s, 0)
Newline == Piece("nl", "\n", 0)

RECURSIVE FrameCols(_, _, _)
FrameCols(p, row, col) ==
    IF col >= p.cols THEN <<>>
    ELSE LET oc == ScreenCell(p, row, col)
             here == IF oc = <<>> THEN <<>>
                     ELSE <<Sgr(cell_to_ansi(oc[1])),
                            IF oc[1].contents # "" THEN Text(oc[1].contents)
                                                   ELSE Text(" ")>>
         IN  here \o FrameCols(p, row, col + 1)

RECURSIVE FrameRows(_, _, _)
FrameRows(p, row, render_rows) ==
    IF row >= render_rows THEN <<>>
    ELSE FrameCols(p, row, 0) \o <<Newline>> \o FrameRows(p, row + 1, render_rows)

RenderRowsUnclamped(p, dynamic_height) == dynamic_height

RenderRows(p, dynamic_height) == Min(p.rows, dynamic_height)

BuildFrame(p) == FrameRows(p, 0, RenderRows(p, get_used_height(p)))

(***************************************************************************)
(* parser.process(bytes): the bytes the model's child writes are printable  *)
(* glyphs and "\n" (a line break as it arrives from the pty: carriage       *)
(* return and line feed).  Printing past the last column wraps, a line feed *)
(* on the last row scrolls the grid up by one row.                          *)
(***************************************************************************)
BlankRow(p) == [c \in 0..(p.cols - 1) |-> BlankCell]

ParserLineFeed(p) ==
    IF p.cur[1] + 1 < p.rows
    THEN [p EXCEPT !.cur = <<p.cur[1] + 1, p.cur[2]>>]
    ELSE [p EXCEPT !.cells =
             [r \in 0..(p.rows - 1) |->
                 IF r + 1 < p.rows THEN p.cells[r + 1] ELSE BlankRow(p)]]

ParserWrap(p) ==
    IF p.cur[2] >= p.cols
    THEN ParserLineFeed([p EXCEPT !.cur = <<p.cur[1], 0>>])
    ELSE p

ParserSetCell(q, s) ==
    [q EXCEPT !.cells[q.cur[1]][q.cur[2]] = PlainCell(s),
              !.cur = <<q.cur[1], q.cur[2] + 1>>]

ParserPut(p, s) == Bind(ParserWrap(p), LAMBDA q : ParserSetCell(q, s))

ProcessByte(p, b) ==
    IF b = "\n" THEN ParserLineFeed([p EXCEPT !.cur = <<p.cur[1], 0>>])
    ELSE ParserPut(p, b)

\* the bytes s[lo..hi] in order (split in halves to keep the evaluation shallow)
RECURSIVE ProcessRange(_, _, _, _)
ProcessRange(p, s, lo, hi) ==
    IF lo > hi THEN p
    ELSE IF lo = hi THEN ProcessByte(p, s[lo])
    ELSE Bind(ProcessRange(p, s, lo, (lo + hi) \div 2),
              LAMBDA left : ProcessRange(left, s, ((lo + hi) \div 2) + 1, hi))

Process(p, bytes) ==
    Bind(p, LAMBDA p0 : Bind(bytes, LAMBDA s : ProcessRange(p0, s, 1, Len(s))))

(***************************************************************************)
(* The host terminal that stdout is attached to: its size, its cursor, the  *)
(* slot of save/restore cursor, and which line each screen row shows        *)
(* (a positive number: a line that was on the screen before the program     *)
(* wrote; 0: a row written or scrolled in by the program's output).         *)
(* A glyph written past the last column wraps to the next row, a line feed  *)
(* on the last row scrolls the screen up by one row, and stdout is a tty in *)
(* its default mode: "\n" arrives as carriage return and line feed.         *)
(***************************************************************************)
NewHost(h, w, cur) ==
    [h |-> h, w |-> w, cur |-> cur, saved |-> <<0, 0>>,
     screen |-> [r \in 0..(h - 1) |-> r + 1]]

HostLineFeed(t) ==
    IF t.cur[1] + 1 < t.h
    THEN [t EXCEPT !.cur = <<t.cur[1] + 1, t.cur[2]>>]
    ELSE [t EXCEPT !.screen =
             [r \in 0..(t.h - 1) |-> IF r + 1 < t.h THEN t.screen[r + 1] ELSE 0]]

HostWrap(t) ==
    IF t.cur[2] >= t.w
    THEN HostLineFeed([t EXCEPT !.cur = <<t.cur[1], 0>>])
    ELSE t

HostSetGlyph(u) ==
    [u EXCEPT !.screen[u.cur[1]] = 0, !.cur = <<u.cur[1], u.cur[2] + 1>>]

HostPutGlyph(t) == Bind(HostWrap(t), LAMBDA u : HostSetGlyph(u))

HostApplyPiece(t, piece) ==
    CASE piece.t = "sgr" -> t
      [] piece.t = "text" -> HostPutGlyph(t)
      [] piece.t = "nl" -> HostLineFeed([t EXCEPT !.cur = <<t.cur[1], 0>>])
      [] piece.t = "save" -> [t EXCEPT !.saved = t.cur]
      [] piece.t = "restore" -> [t EXCEPT !.cur = t.saved]
      [] piece.t = "move" -> [t EXCEPT !.cur = <<Min(piece.n, t.h - 1), 0>>]

RECURSIVE HostApply(_, _)
HostApply(t, pieces) ==
    IF pieces = <<>> THEN t
    ELSE Bind(HostApplyPiece(t, Head(pieces)),
              LAMBDA u : HostApply(u, Tail(pieces)))

\* crossterm's commands, as the pieces they write to stdout
SavePosition == Piece("save", "", 0)
RestorePosition == Piece("restore", "", 0)
MoveTo(col, row) == Piece("move", "", row)

(***************************************************************************)
(* stdout: a LineWriter.  A write is passed on up to its last newline, the  *)
(* rest is held back; a flush passes everything on.                         *)
(***************************************************************************)
RECURSIVE LastNewline(_, _)
LastNewline(pieces, i) ==
    IF i = 0 THEN 0
    ELSE IF pieces[i].t = "nl" THEN i
    ELSE LastNewline(pieces, i - 1)

\* s: [host, out, ops, status] while render runs
PassOn(s, all, k) ==
    [s EXCEPT !.host = HostApply(s.host, SubSeq(all, 1, k)),
              !.out = SubSeq(all, k + 1, Len(all))]

StdoutWrite(s, pieces) ==
    Bind(s.out \o pieces, LAMBDA all : PassOn(s, all, LastNewline(all, Len(all))))

StdoutFlush(s) ==
    [s EXCEPT !.host = HostApply(s.host, s.out), !.out = <<>>]

\* stdout.execute(cmd)?: queue the command, flush
Execute(s, cmd, name, fails) ==
    IF s.status # "ok" THEN s
    ELSE IF fails THEN [s EXCEPT !.status = "err_" \o name]
    ELSE [StdoutFlush([s EXCEPT !.out = Append(s.out, cmd)])
             EXCEPT !.ops = Append(s.ops, name)]

\* crossterm::terminal::size()?
QuerySize(s, fails) ==
    IF s.status # "ok" THEN s
    ELSE IF fails THEN [s EXCEPT !.status = "err_size"]
    ELSE [s EXCEPT !.ops = Append(s.ops, "size")]

\* print!("{}", frame): panics when the write fails
PrintFrame(s, text, fails) ==
    IF s.status # "ok" THEN s
    ELSE IF fails THEN [s EXCEPT !.status = "panic_write"]
    ELSE [StdoutWrite(s, text) EXCEPT !.ops = Append(s.ops, "write")]

\* stdout.flush()?
FlushStdout(s, fails) ==
    IF s.status # "ok" THEN s
    ELSE IF fails THEN [s EXCEPT !.status = "err_flush"]
    ELSE [StdoutFlush(s) EXCEPT !.ops = Append(s.ops, "flush")]

StartRow(terminal_height, dynamic_height) ==
    SatSub(SatSub(terminal_height, dynamic_height), 1)

(***************************************************************************)
(* render, the arm Ok(n) after process: lines 145-186.  fail names the      *)
(* operation that fails in this call ("none": all succeed).                 *)
(***************************************************************************)
DrawStart(t) ==
    [host |-> t, out |-> <<>>, ops |-> <<"read", "process">>, status |-> "ok"]

DrawRestoreFirst(p, t, fail) ==
    Bind(get_used_height(p), LAMBDA dynamic_height :
    Bind(Execute(DrawStart(t), SavePosition, "save", fail = "save"), LAMBDA s1 :
    Bind(QuerySize(s1, fail = "size"), LAMBDA s2 :
    Bind(StartRow(t.h, dynamic_height), LAMBDA start_row :
    Bind(Execute(s2, MoveTo(0, start_row), "move", fail = "move"), LAMBDA s3 :
    Bind(Execute(s3, RestorePosition, "restore", fail = "restore"), LAMBDA s4 :
    Bind(PrintFrame(s4, BuildFrame(p), fail = "write"), LAMBDA s5 :
    FlushStdout(s5, fail = "flush"))))))))

Draw(p, t, fail) ==
    Bind(get_used_height(p), LAMBDA dynamic_height :
    Bind(Execute(DrawStart(t), SavePosition, "save", fail = "save"), LAMBDA s1 :
    Bind(QuerySize(s1, fail = "size"), LAMBDA s2 :
    Bind(StartRow(t.h, dynamic_height), LAMBDA start_row :
    Bind(Execute(s2, MoveTo(0, start_row), "move", fail = "move"), LAMBDA s3 :
    Bind(PrintFrame(s3, BuildFrame(p), fail = "write"), LAMBDA s4 :
    Bind(Execute(s4, RestorePosition, "restore", fail = "restore"), LAMBDA s5 :
    FlushStdout(s5, fail = "flush"))))))))

(***************************************************************************)
(* self.reader.read(&mut buf): BufReader::read over the pty.  An empty      *)
(* BufReader refills from the pty (or, were buf at least as large as its    *)
(* capacity, reads straight into buf); the call returns at most ChunkSize   *)
(* bytes.  With nothing buffered and nothing in the pty the read blocks     *)
(* while the child lives; once the child has exited it returns 0 or fails   *)
(* (a pty master reports the hang-up as end of file or as an error).        *)
(***************************************************************************)
ReadHasData == rbuf # <<>> \/ pty # <<>>
ReadHungUp == rbuf = <<>> /\ pty = <<>> /\ child = "exited"

ReadData ==
    LET bypass == rbuf = <<>> /\ ChunkSize >= BufCapacity
        k == IF rbuf # <<>> THEN 0
             ELSE IF bypass THEN Min(ChunkSize, Len(pty))
             ELSE Min(BufCapacity, Len(pty))
        buffered == IF rbuf # <<>> THEN rbuf ELSE SubSeq(pty, 1, k)
        n == Min(ChunkSize, Len(buffered))
    IN  [n |-> n,
         buf |-> SubSeq(buffered, 1, n),
         rbuf |-> IF bypass THEN <<>> ELSE SubSeq(buffered, n + 1, Len(buffered)),
         pty |-> IF bypass THEN SubSeq(pty, n + 1, Len(pty))
                           ELSE SubSeq(pty, k + 1, Len(pty))]

\* &buf[..n]
SliceShort(buf, n) == SubSeq(buf, 1, n - 1)

Slice(buf, n) == SubSeq(buf, 1, n)

(***************************************************************************)
(* render: the three arms of the match on the read's result.  Each yields   *)
(* what the call leaves behind: the parser, the bytes fed, the host         *)
(* terminal, the operations performed, the frame and how the call ended.    *)
(***************************************************************************)
ArmData(rd) ==
    Bind(Slice(rd.buf, rd.n), LAMBDA bytes :
        [parser |-> Process(parser, bytes), fed |-> fed \o bytes, n |-> rd.n])

\* Ok(0) => return Ok(())
ArmEofDraws ==
    Bind(Draw(parser, host, "none"), LAMBDA d :
        [host |-> d.host, ops |-> d.ops, outcome |-> "eof"])

ArmEof == [host |-> host, ops |-> <<"read">>, outcome |-> "eof"]

\* Err(e) => eprintln!("Read error: {}", e)
ArmErr == [host |-> host, ops |-> <<"read", "log">>, outcome |-> "read_error"]

(***************************************************************************)
(* Values of the variables a specification does not use.                    *)
(***************************************************************************)
EncIdle == cell = BlankCell /\ ansi = ""
GridIdle == usedHeight = -1 /\ renderRows = -1 /\ frame = <<>>
DriverIdle ==
    /\ pc = "running" /\ tick = 0 /\ child = "alive" /\ writes = 0
    /\ produced = <<>> /\ pty = <<>> /\ rbuf = <<>> /\ fed = <<>>
    /\ ops = <<>> /\ outcome = "none" /\ lastRead = -1

(***************************************************************************)
(* EncSpec: cell_to_ansi on a drawn cell.                                  *)
(***************************************************************************)
EncInit ==
    /\ mode = "enc"
    /\ \E fl \in [1..5 -> BOOLEAN], fg \in Colors, bg \in Colors :
          cell = MkCell("x", fl, fg, bg)
    /\ ansi = ""
    /\ parser = NewParser(0, 0)
    /\ GridIdle /\ DriverIdle
    /\ host = NewHost(1, 1, <<0, 0>>) /\ hostBefore = host

Encode ==
    /\ mode = "enc" /\ ansi = ""
    /\ ansi' = cell_to_ansi(cell)
    /\ UNCHANGED <<mode, cell, usedHeight, parser, renderRows, frame, driverVars>>

EncNext == Encode

EncSpec == EncInit /\ [][EncNext]_vars

(***************************************************************************)
(* GridSpec: get_used_height and the frame loop on a drawn grid.            *)
(***************************************************************************)
Contents == {"", " ", "x"}

GridCells(R, C) == [0..(R - 1) -> [0..(C - 1) -> {PlainCell(s) : s \in Contents}]]

GridInit ==
    /\ mode = "grid"
    /\ \E R \in 0..MaxRows, C \in 0..MaxCols :
          \E g \in GridCells(R, C) :
              parser = [rows |-> R, cols |-> C, cells |-> g, cur |-> <<0, 0>>]
    /\ EncIdle /\ GridIdle /\ DriverIdle
    /\ host = NewHost(1, 1, <<0, 0>>) /\ hostBefore = host

CallUsedHeight ==
    /\ mode = "grid" /\ usedHeight = -1
    /\ usedHeight' = get_used_height(parser)
    /\ UNCHANGED <<mode, encVars, parser, renderRows, frame, driverVars>>

CallBuildFrame ==
    /\ mode = "grid" /\ renderRows = -1
    /\ renderRows' = RenderRows(parser, get_used_height(parser))
    /\ frame' = BuildFrame(parser)
    /\ UNCHANGED <<mode, encVars, usedHeight, parser, driverVars>>

GridNext == CallUsedHeight \/ CallBuildFrame

GridSpec == GridInit /\ [][GridNext]_vars

(***************************************************************************)
(* Spec: main.  spawn opens the pty and the parser with the size main       *)
(* passes; the host terminal has any size, its cursor is in the top left    *)
(* or the bottom right corner.                                              *)
(***************************************************************************)
Long == [i \in 1..(ChunkSize + 1) |-> "x"]
Bursts == {<<"x">>, <<"\n">>, Long}

spawn(rows, cols) == NewParser(rows, cols)

Init ==
    /\ mode = "driver"
    /\ parser = spawn(MaxRows, MaxCols)
    /\ \E h \in 1..MaxHostRows, w \in 1..MaxHostCols :
         \E cur \in {<<0, 0>>, <<h - 1, w - 1>>} : host = NewHost(h, w, cur)
    /\ hostBefore = host
    /\ EncIdle /\ GridIdle /\ DriverIdle

\* the child writes to its terminal
ChildWrite ==
    /\ mode = "driver" /\ pc = "running" /\ child = "alive" /\ writes < MaxWrites
    /\ \E b \in Bursts : pty' = pty \o b /\ produced' = produced \o b
    /\ writes' = writes + 1
    /\ UNCHANGED <<mode, encVars, usedHeight, parser, renderRows, frame, pc, tick,
                   child, rbuf, fed, host, hostBefore, ops, outcome, lastRead>>

\* the child exits (followed while main runs)
ChildExit ==
    /\ mode = "driver" /\ pc = "running" /\ child = "alive"
    /\ child' = "exited"
    /\ UNCHANGED <<mode, encVars, usedHeight, parser, renderRows, frame, pc, tick,
                   writes, produced, pty, rbuf, fed, host, hostBefore, ops,
                   outcome, lastRead>>

\* one loop iteration: vt.render()? returns Ok after Ok(0), then the sleep
RenderEof ==
    /\ mode = "driver" /\ pc = "running" /\ ReadHungUp
    /\ hostBefore' = host
    /\ \E e \in {ArmEof} : host' = e.host /\ ops' = e.ops /\ outcome' = e.outcome
    /\ lastRead' = 0
    /\ tick' = 1 - tick
    /\ UNCHANGED <<mode, encVars, usedHeight, parser, renderRows, frame, pc,
                   child, writes, produced, pty, rbuf, fed>>

\* one loop iteration: the read fails, render logs it and returns Ok
RenderReadError ==
    /\ mode = "driver" /\ pc = "running" /\ ReadHungUp
    /\ hostBefore' = host
    /\ \E e \in {ArmErr} : host' = e.host /\ ops' = e.ops /\ outcome' = e.outcome
    /\ lastRead' = -1
    /\ tick' = 1 - tick
    /\ UNCHANGED <<mode, encVars, usedHeight, parser, renderRows, frame, pc,
                   child, writes, produced, pty, rbuf, fed>>

\* what a call that read n > 0 bytes leaves behind, fail being the failing operation
\* main's loop after the call: `?` returns an Err from main, a panic unwinds,
\* Ok goes on to the sleep and the next iteration
LoopAfterIgnoringErr(status) == IF status = "panic_write" THEN "panicked" ELSE "running"

LoopAfter(status) ==
    IF status = "ok" THEN "running"
    ELSE IF status = "panic_write" THEN "panicked"
    ELSE "failed"

Wrote(d) == \E i \in 1..Len(d.ops) : d.ops[i] = "write"

RenderLeaves(rd, a, d) ==
    /\ hostBefore' = host
    /\ rbuf' = rd.rbuf /\ pty' = rd.pty /\ lastRead' = a.n
    /\ parser' = a.parser /\ fed' = a.fed
    /\ host' = d.host /\ ops' = d.ops
    /\ outcome' = IF d.status = "ok" THEN "drawn" ELSE d.status
    /\ frame' = IF Wrote(d) THEN BuildFrame(a.parser) ELSE frame
    /\ renderRows' = IF Wrote(d) THEN RenderRows(a.parser, get_used_height(a.parser))
                                 ELSE renderRows
    /\ pc' = LoopAfter(d.status)
    /\ tick' = IF d.status = "ok" THEN 1 - tick ELSE tick

RenderData(fail) ==
    \E rd \in {ReadData} :
        \E a \in {ArmData(rd)} :
            \E d \in {Draw(a.parser, host, fail)} : RenderLeaves(rd, a, d)

\* one loop iteration: bytes read, the frame drawn, render returns Ok, then the sleep
RenderDraw ==
    /\ mode = "driver" /\ pc = "running" /\ ReadHasData
    /\ RenderData("none")
    /\ UNCHANGED <<mode, encVars, usedHeight, child, writes, produced>>

\* a host-terminal operation fails with ?: render returns Err, main returns it
ErrOps == {"save", "size", "move", "restore", "flush"}

RenderError ==
    /\ mode = "driver" /\ pc = "running" /\ ReadHasData
    /\ \E fail \in ErrOps : RenderData(fail)
    /\ UNCHANGED <<mode, encVars, usedHeight, child, writes, produced>>

\* print! fails: the thread panics inside render
RenderPanic ==
    /\ mode = "driver" /\ pc = "running" /\ ReadHasData
    /\ RenderData("write")
    /\ UNCHANGED <<mode, encVars, usedHeight, child, writes, produced>>

\* main's loop
Tick == RenderEof \/ RenderReadError \/ RenderDraw \/ RenderError \/ RenderPanic

Next == ChildWrite \/ ChildExit \/ Tick

Spec == Init /\ [][Next]_vars

\* the driver thread is never starved: while an iteration can run, one does
FairSpec == Spec /\ WF_vars(Tick)

(***************************************************************************)
(* Helpers of the properties.                                               *)
(***************************************************************************)
Max(a, b) == IF a > b THEN a ELSE b
Count(seq, x) == Cardinality({i \in DOMAIN seq : seq[i] = x})
SetMax(S) == CHOOSE m \in S : \A x \in S : x <= m

\* the rows holding a cell whose content is neither empty nor a single space
VisibleRows(p) ==
    {r \in 0..(p.rows - 1) :
        \E c \in 0..(p.cols - 1) : p.cells[r][c].contents \notin {"", " "}}

\* the used height as the claims define it
SpecUsedHeight(p) ==
    IF VisibleRows(p) = {} THEN 1 ELSE SetMax(VisibleRows(p)) + 1

(***************************************************************************)
(* C1 (under FairSpec): once the child has exited the driver loop           *)
(* eventually leaves Running and reaches Done (runs that a fatal render     *)
(* error ends are set aside).                                               *)
(***************************************************************************)
C1_LoopReachesDone ==
    (mode = "driver" /\ child = "exited") ~> (pc \in {"done", "failed", "panicked"})

(***************************************************************************)
(* C2: after a frame is drawn, with render_rows = min(total_rows,           *)
(* used_height) and start_row = max(0, H - render_rows - 1), every host     *)
(* row above start_row still shows the line it showed before the call: it   *)
(* was neither overwritten nor scrolled.                                    *)
(***************************************************************************)
C2_BottomRegionConfined ==
    (mode = "driver" /\ outcome = "drawn") =>
        LET render_rows == Min(parser.rows, SpecUsedHeight(parser))
            start_row == Max(0, host.h - render_rows - 1)
        IN  \A r \in 0..(start_row - 1) : host.screen[r] = hostBefore.screen[r]

(***************************************************************************)
(* C3: a render call that draws a frame performs save-cursor, move-to,      *)
(* write frame, restore-cursor, flush in this order, and when it returns    *)
(* the host cursor is where it was before the call.                         *)
(***************************************************************************)
IsHostStep(o) == o \in {"save", "move", "write", "restore", "flush"}

C3_CursorPreserved ==
    (mode = "driver" /\ outcome = "drawn") =>
        /\ SelectSeq(ops, IsHostStep) = <<"save", "move", "write", "restore", "flush">>
        /\ host.cur = hostBefore.cur

C3_Witness ==
    /\ mode = "driver" /\ outcome = "drawn"
    /\ host.h = MaxHostRows
    /\ hostBefore.cur = <<0, 0>>
    /\ host.screen # hostBefore.screen

FlagPrefix(c) ==
    (IF c.bold THEN "1;" ELSE "") \o (IF c.dim THEN "2;" ELSE "")
        \o (IF c.italic THEN "3;" ELSE "") \o (IF c.underline THEN "4;" ELSE "")
        \o (IF c.inverse THEN "7;" ELSE "")

ColorText(color, base) ==
    CASE color.kind = "Default" -> ToString(base + 9)
      [] color.kind = "Idx" -> ToString(base + 8) \o ";5;" \o ToString(color.idx)
      [] color.kind = "Rgb" ->
            ToString(base + 8) \o ";2;" \o ToString(color.r) \o ";"
                \o ToString(color.g) \o ";" \o ToString(color.b)

C5_EncoderStructure ==
    (mode = "enc" /\ ansi # "") =>
        /\ ansi = "ESC[" \o FlagPrefix(cell) \o ColorText(cell.fg, 30) \o ";"
                         \o ColorText(cell.bg, 40) \o "m"
        /\ (cell = MkCell("x", <<TRUE, FALSE, FALSE, TRUE, TRUE>>, ColorIdx(3), ColorDefault)
               => ansi = "ESC[1;4;7;38;5;3;49m")
        /\ ansi # "ESC[0m"

C5_Witness ==
    /\ mode = "enc"
    /\ cell.bold /\ cell.underline /\ cell.inverse /\ ~cell.dim /\ ~cell.italic
    /\ ansi = "ESC[1;4;7;38;5;3;49m"

(***************************************************************************)
(* C6 as claimed: a cell with foreground RGB (10,20,30), default background *)
(* and no flag set is encoded as ESC[38;2;10;20;30;39m.                     *)
(***************************************************************************)
C6_TrueColorAsClaimed ==
    (mode = "enc" /\ ansi # ""
       /\ cell = MkCell("x", NoFlags, ColorRgb(10, 20, 30), ColorDefault))
        => ansi = "ESC[38;2;10;20;30;39m"

(***************************************************************************)
(* C6 amended: a cell with foreground RGB (10,20,30), default background    *)
(* and no flag set is encoded as ESC[38;2;10;20;30;49m (49, the default     *)
(* background code, ends the sequence), with no attribute codes.            *)
(***************************************************************************)
C6_TrueColor ==
    (mode = "enc" /\ ansi # ""
       /\ cell = MkCell("x", NoFlags, ColorRgb(10, 20, 30), ColorDefault))
        => ansi = "ESC[38;2;10;20;30;49m"

C6_Witness ==
    /\ mode = "enc"
    /\ cell = MkCell("x", NoFlags, ColorRgb(10, 20, 30), ColorDefault)
    /\ ansi = "ESC[38;2;10;20;30;49m"

FailureOutcomes ==
    {"err_save", "err_size", "err_move", "panic_write", "err_restore", "err_flush"}

(***************************************************************************)
(* C7 as claimed: when a host-terminal operation of a render fails          *)
(* (save-cursor, size query, move-to, frame write, restore-cursor, flush),  *)
(* render returns an error and the driver loop stops with it.               *)
(***************************************************************************)
C7_RenderFailureReturnsError ==
    (mode = "driver" /\ outcome \in FailureOutcomes) => pc = "failed"

(***************************************************************************)
(* C7 amended: when a host-terminal operation of a render fails, the call   *)
(* does not return success: it returns an error (save-cursor, size query,   *)
(* move-to, restore-cursor, flush) or panics (the frame write); the driver  *)
(* loop stops at that tick, and nothing is read or drawn afterwards.        *)
(***************************************************************************)
C7_RenderFailureFatal ==
    [][/\ outcome' \in FailureOutcomes =>
              pc' = IF outcome' = "panic_write" THEN "panicked" ELSE "failed"
       /\ pc # "running" =>
              /\ pc' = pc
              /\ UNCHANGED <<parser, fed, rbuf, pty, host, frame, ops, outcome>>]_vars

C7_Witness ==
    /\ mode = "driver" /\ outcome = "err_restore" /\ pc = "failed"
    /\ Count(ops, "write") = 1
    /\ host.screen # hostBefore.screen

(***************************************************************************)
(* C8: a tick whose read returns zero bytes or fails leaves the cell grid   *)
(* and the host terminal unchanged, performs no host-terminal operation     *)
(* and returns success: the loop goes on.                                   *)
(***************************************************************************)
C8_EmptyPumpNoOp ==
    [][(tick' # tick /\ outcome' \in {"eof", "read_error"}) =>
           /\ parser' = parser /\ frame' = frame /\ fed' = fed
           /\ host' = host
           /\ \A i \in 1..Len(ops') : ~IsHostStep(ops'[i])
           /\ pc' = "running"]_vars

C8_Witness ==
    /\ mode = "driver" /\ outcome = "eof" /\ pc = "running"
    /\ fed # <<>> /\ renderRows >= 1

(***************************************************************************)
(* C9: a tick performs one read, of at most ChunkSize bytes; the bytes are  *)
(* fed to the terminal-state machine in the order the child produced them,  *)
(* none skipped, duplicated or reordered; and a non-empty read is followed, *)
(* before the next read, by exactly one frame, built from the grid that     *)
(* reflects all bytes consumed so far.                                      *)
(***************************************************************************)
C9_OrderedConsumption ==
    mode = "driver" =>
        /\ fed \o rbuf \o pty = produced
        /\ lastRead <= ChunkSize
        /\ outcome # "none" => (ops[1] = "read" /\ Count(ops, "read") = 1)
        /\ parser = Process(spawn(MaxRows, MaxCols), fed)
        /\ (pc = "running" /\ lastRead > 0) =>
              /\ Count(ops, "write") = 1
              /\ frame = BuildFrame(Process(spawn(MaxRows, MaxCols), fed))
        /\ lastRead <= 0 => Count(ops, "write") = 0

C9_Witness ==
    /\ mode = "driver" /\ pc = "running" /\ outcome = "drawn"
    /\ lastRead = ChunkSize /\ rbuf # <<>>
    /\ Len(fed) > ChunkSize

(***************************************************************************)
(* C10: render_rows = min(total_rows, used_height) never exceeds            *)
(* total_rows, for any total_rows >= 0, and the frame is made of exactly    *)
(* render_rows grid rows, each followed by a newline.                       *)
(***************************************************************************)
C10_RenderRowsClamp ==
    (mode = "grid" /\ renderRows # -1) =>
        /\ renderRows <= parser.rows
        /\ renderRows = Min(parser.rows, SpecUsedHeight(parser))
        /\ Len(frame) = renderRows * (2 * parser.cols + 1)
        /\ \A i \in 1..Len(frame) :
              (frame[i].t = "nl") <=> (i % (2 * parser.cols + 1) = 0)

C10_Witness ==
    /\ mode = "grid" /\ parser.rows = 2 /\ parser.cols = 2
    /\ renderRows = 1 /\ Len(frame) = 5
    /\ frame[2] = Text("x")

====
